---- MODULE Spec2Model ----
(***************************************************************************)
(* State-machine model of log-server/blockchain-http-server.js: the boot   *)
(* of the two Fabric connections, the three HTTP routes with their         *)
(* ledger / in-memory routing, and the SIGINT teardown.                    *)
(*                                                                         *)
(* One action is one run of JavaScript between two returns to the event    *)
(* loop (a handler up to its first real await, or the continuation after   *)
(* it).  `out` holds what that run produced (HTTP response, ledger call,   *)
(* console line) together with a snapshot of the shared state it started   *)
(* from; EndTurn is the return to the event loop and clears it.            *)
(***************************************************************************)
EXTENDS Integers, Sequences, FiniteSets, TLC

VARIABLES
    orgConnections, \* const orgConnections = {}: own keys -> {gateway, contract}
    claimsLogs,     \* let claimsLogs = []: the in-memory fallback list
    bootPc,         \* position of initializeFabric(): "org1", "org2", "done"
    inflight,       \* requests suspended on contract.evaluate/submitTransaction
    sigPc,          \* position of the SIGINT handler
    proc,           \* the process: running, or exited with a status
    out,            \* output of the current run (cleared by EndTurn)
    attempts,       \* history: calls of initializeFabricForOrg per organization
    stepsOk,        \* history: organizations whose boot steps all succeeded
    disconnected,   \* history: organizations whose gateway.disconnect() was called
    returned,       \* history: records answered 200 by fallback POSTs
    postedFor,      \* history: the :org of the latest fallback POST that stored a record
    handled,        \* history: the records of the fallback POSTs, in the order handled
    routedToLedger, \* history: organizations a request of which went to the ledger
    certFile,       \* setup-wallets.js: signcerts/cert.pem of each organization
    keystore,       \* setup-wallets.js: the keystore directory of each organization
    wallet,         \* setup-wallets.js: the wallet directory (the identity store)
    provPc          \* setup-wallets.js: position of main()

\* The files and the position of the credential provisioner.
provVars == <<certFile, keystore, wallet, provPc>>

\* The state of the HTTP server and its history.
serverVars == <<orgConnections, claimsLogs, bootPc, inflight, sigPc, proc, out,
                attempts, stepsOk, disconnected, returned, postedFor,
                handled, routedToLedger>>

vars == <<serverVars, provVars>>

-----------------------------------------------------------------------------
(* Bounds of the model *)

\* longest fallback list explored
MaxLogs == 2
\* most requests suspended on the ledger at once
MaxInflight == 1

-----------------------------------------------------------------------------
(* Constants of the program *)

ORG1_NAME == "org1.example.com"
ORG2_NAME == "org2.example.com"

\* The organizations initializeFabric() connects.
ConfiguredOrgs == {ORG1_NAME, ORG2_NAME}

\* Values of the :org route parameter: the two configured names and a name
\* that is not configured.
OrgParams == ConfiguredOrgs \cup {"org3.example.com"}

Null == "null"

\* Readings of the wall clock (Date.now(), milliseconds).  One run of a
\* handler reads one instant; two runs may read the same one.
Times == {1, 2}

\* Date.now().toString()
DateNowString(t) == ToString(t)

\* new Date().toISOString()
ToISOString(t) == "1970-01-01T00:00:00.00" \o ToString(t) \o "Z"

RequiredFields == {"claimId", "farmerName", "cropType", "status"}

-----------------------------------------------------------------------------
(* JavaScript objects are functions from their own keys to values. *)

EmptyObject == [k \in {} |-> ""]

\* obj[k] is truthy: present and not the empty string
Truthy(obj, k) == k \in DOMAIN obj /\ obj[k] # ""

\* obj[k] = v
SetField(obj, k, v) == [x \in DOMAIN obj \cup {k} |-> IF x = k THEN v ELSE obj[x]]

\* obj without key k
Without(obj, k) == [x \in DOMAIN obj \ {k} |-> obj[x]]

Range(s) == {s[i] : i \in DOMAIN s}

\* JSON values as they appear in response bodies
JArray(items) == [type |-> "array", items |-> items]
JObject(fields) == [type |-> "object", fields |-> fields]
JNull == [type |-> "null"]

-----------------------------------------------------------------------------
(* Inputs: request bodies and results of the ledger *)

BaseLog ==
    [claimId |-> "C1", farmerName |-> "Asha", cropType |-> "Wheat", status |-> "Filed"]

ClientTimestamp == "2025-06-01T00:00:00.000Z"

\* Bodies with the four required fields: without a timestamp, with an empty
\* one, and with a timestamp, an id and a createdAt of the client's own.
ValidBodies ==
    { BaseLog,
      SetField(BaseLog, "timestamp", ""),
      SetField(SetField(SetField(BaseLog, "timestamp", ClientTimestamp),
                        "id", "client-id"), "createdAt", "client-createdAt") }

\* Bodies with one required field absent or empty, and the empty body.
InvalidBodies ==
    {Without(BaseLog, f) : f \in RequiredFields}
        \cup {SetField(BaseLog, f, "") : f \in RequiredFields}
        \cup {EmptyObject}

Bodies == ValidBodies \cup InvalidBodies

\* What contract.evaluateTransaction / submitTransaction can hand back:
\* a Buffer, or a rejection (an endorsement or commit error, a timeout).
ResultBytes ==
    {"", "[]", "[{\"claimId\":\"C1\"}]", "{\"claimId\":\"C1\"}", "null", "<html>"}

LedgerOutcomes ==
    [kind : {"resolve"}, bytes : ResultBytes, message : {""}]
        \cup [kind : {"reject"}, bytes : {""},
              message : {"No valid responses from any peers", "Event strategy not satisfied within the timeout period"}]

NoOutcome == [kind |-> "none", bytes |-> "", message |-> ""]

\* JSON.parse on the strings of ResultBytes: the value, or a SyntaxError.
JSONParse(text) ==
    CASE text = "[]" -> [ok |-> TRUE, value |-> JArray(<<>>)]
      [] text = "[{\"claimId\":\"C1\"}]" ->
            [ok |-> TRUE, value |-> JArray(<<[claimId |-> "C1"]>>)]
      [] text = "{\"claimId\":\"C1\"}" ->
            [ok |-> TRUE, value |-> JObject([claimId |-> "C1"])]
      [] text = "null" -> [ok |-> TRUE, value |-> JNull]
      [] OTHER -> [ok |-> FALSE, value |-> JNull]

-----------------------------------------------------------------------------
(* The output of one run: op names the handler ("GET", "POST", "HEALTH",      *)
(* "SIGINT", "boot"), with ".call" when the run ends suspended on the ledger *)
(* and ".reply" when it is the continuation of such a run; route is the      *)
(* backend that served a request, and for boot and SIGINT what the run did.  *)

NoCalls == <<>>

Idle ==
    [op |-> "idle", org |-> "", reqBody |-> EmptyObject, status |-> 0,
     body |-> JNull, route |-> "none", calls |-> NoCalls, ledger |-> NoOutcome,
     logsBefore |-> <<>>, connsBefore |-> EmptyObject]

\* The record a run leaves in `out`: what it answered and did, and the shared
\* state it started from.
Output(op, org, reqBody, status, body, route, calls, ledger) ==
    [op |-> op, org |-> org, reqBody |-> reqBody, status |-> status,
     body |-> body, route |-> route, calls |-> calls, ledger |-> ledger,
     logsBefore |-> claimsLogs, connsBefore |-> orgConnections]

Running == proc.state = "running"

\* A new run starts only from the event loop, in a live process.
Ready == Running /\ out.op = "idle"

-----------------------------------------------------------------------------
(* Boot: initializeFabric and initializeFabricForOrg *)

\* The places where initializeFabricForOrg can throw: reading or parsing the
\* connection profile, opening the wallet, a missing admin identity,
\* gateway.connect, gateway.getNetwork, network.getContract.
BootSteps == {"ccp", "wallet", "identity", "connect", "network", "contract"}

GatewayOf(org) == "gateway:" \o org
ContractOf(org) == "logcc@mychannel:" \o org

\* Mutant: the handle is returned although resolving the channel or the
\* contract threw.
initializeFabricForOrg_LateFailureKept(org, failed) ==
    IF failed \in {"none", "network", "contract"}
    THEN [gateway |-> GatewayOf(org), contract |-> ContractOf(org)]
    ELSE [gateway |-> Null, contract |-> Null]

\* Mutant: a failure after gateway.connect leaves the connected gateway in
\* the returned value.
initializeFabricForOrg_GatewayKept(org, failed) ==
    IF failed = "none"
    THEN [gateway |-> GatewayOf(org), contract |-> ContractOf(org)]
    ELSE IF failed \in {"network", "contract"}
         THEN [gateway |-> GatewayOf(org), contract |-> Null]
         ELSE [gateway |-> Null, contract |-> Null]

\* The value initializeFabricForOrg returns when step `failed` throws
\* ("none": no step throws).
initializeFabricForOrg(org, failed) ==
    IF failed = "none"
    THEN [gateway |-> GatewayOf(org), contract |-> ContractOf(org)]
    ELSE [gateway |-> Null, contract |-> Null]

\* Mutant: storing one organization's entry clears the entries stored before.
Store_ResetsOthers(conns, org, value) ==
    [k \in DOMAIN conns \cup {org} |->
        IF k = org THEN value ELSE [gateway |-> Null, contract |-> Null]]

\* orgConnections[org] = value
Store(conns, org, value) ==
    [k \in DOMAIN conns \cup {org} |-> IF k = org THEN value ELSE conns[k]]

\* One `orgConnections[org] = await initializeFabricForOrg(org)` of
\* initializeFabric.  The awaits inside the attempt touch no shared state, so
\* the attempt is one step, taken when its last await settles.
InitializeOrg(org, next) ==
    \E failed \in BootSteps \cup {"none"} :
        /\ orgConnections' = Store(orgConnections, org, initializeFabricForOrg(org, failed))
        /\ bootPc' = next
        /\ attempts' = [attempts EXCEPT ![org] = @ + 1]
        /\ stepsOk' = IF failed = "none" THEN stepsOk \cup {org} ELSE stepsOk
        /\ out' = Output("boot", org, EmptyObject, 0, JNull, failed, NoCalls, NoOutcome)
        /\ UNCHANGED <<claimsLogs, inflight, sigPc, proc, disconnected, returned, postedFor,
                   handled, routedToLedger, provVars>>

InitializeFabricOrg1 ==
    /\ Ready
    /\ bootPc = "org1"
    /\ InitializeOrg(ORG1_NAME, "org2")

InitializeFabricOrg2 ==
    /\ Ready
    /\ bootPc = "org2"
    /\ InitializeOrg(ORG2_NAME, "done")

-----------------------------------------------------------------------------
(* Routes *)

\* Mutant: the route tests only that the organization has an entry.
HasContract_EntryOnly(conns, orgName) == orgName \in DOMAIN conns

\* orgConnections[orgName] && orgConnections[orgName].contract
\* (for a name that is not an own key the lookup yields undefined, or a value
\* inherited from Object.prototype, which has no contract property)
HasContract(conns, orgName) ==
    orgName \in DOMAIN conns /\ conns[orgName].contract # Null

\* orgConnections[ORGn_NAME] && orgConnections[ORGn_NAME].gateway
HasGateway(conns, orgName) ==
    orgName \in DOMAIN conns /\ conns[orgName].gateway # Null

\* Mutant: both flags are read from org1's entry.
HealthBody_BothFromOrg1(conns) ==
    JObject([status |-> "OK",
             fabricConnectedOrg1 |-> HasContract(conns, ORG1_NAME),
             fabricConnectedOrg2 |-> HasContract(conns, ORG1_NAME)])

\* The body of the health response (its timestamp left out).
HealthBody(conns) ==
    JObject([status |-> "OK",
             fabricConnectedOrg1 |-> HasContract(conns, ORG1_NAME),
             fabricConnectedOrg2 |-> HasContract(conns, ORG2_NAME)])

\* app.get('/health')
Health ==
    /\ Ready
    /\ out' = Output("HEALTH", "", EmptyObject, 200, HealthBody(orgConnections),
                     "none", NoCalls, NoOutcome)
    /\ UNCHANGED <<orgConnections, claimsLogs, bootPc, inflight, sigPc, proc,
                   attempts, stepsOk, disconnected, returned, postedFor,
                   handled, routedToLedger, provVars>>

\* Mutant: status and timestamp change places.
AddClaimLogArgs_StatusFirst(claimLog, t) ==
    << claimLog["claimId"], claimLog["farmerName"], claimLog["cropType"],
       claimLog["status"],
       IF Truthy(claimLog, "timestamp") THEN claimLog["timestamp"] ELSE ToISOString(t) >>

\* The five positional arguments of AddClaimLog.
AddClaimLogArgs(claimLog, t) ==
    << claimLog["claimId"], claimLog["farmerName"], claimLog["cropType"],
       IF Truthy(claimLog, "timestamp") THEN claimLog["timestamp"] ELSE ToISOString(t),
       claimLog["status"] >>

\* submitTransaction / evaluateTransaction: the calls the helper makes on the
\* organization's contract; none when it throws 'Contract ... not available'.
ContractCall(conns, orgName, kind, functionName, args) ==
    IF HasContract(conns, orgName)
    THEN << [org |-> orgName, kind |-> kind, fn |-> functionName, args |-> args] >>
    ELSE NoCalls

ErrorBody(error, details) == JObject([error |-> error, details |-> details])

\* Mutant: the validation tests only that the fields are present.
MissingFields_PresenceOnly(claimLog) == \E f \in RequiredFields : f \notin DOMAIN claimLog

\* !claimLog.claimId || !claimLog.farmerName || !claimLog.cropType || !claimLog.status
MissingFields(claimLog) == \E f \in RequiredFields : ~Truthy(claimLog, f)

\* The body of the 400 response.
MissingFieldsBody ==
    JObject([error |-> "Missing required fields",
             required |-> <<"claimId", "farmerName", "cropType", "status">>])

\* Mutant: the list is replaced by the new record instead of extended.
Push_Replaces(list, claimLog) == <<claimLog>>

\* Mutant: a record whose claimId is already listed is not added.
Push_Dedups(list, claimLog) ==
    IF \E i \in DOMAIN list : list[i]["claimId"] = claimLog["claimId"]
    THEN list
    ELSE Append(list, claimLog)

\* Mutant: the record is put at the head of the list.
Push_Prepends(list, claimLog) == <<claimLog>> \o list

\* claimsLogs.push(claimLog)
Push(list, claimLog) == Append(list, claimLog)

\* The record the fallback branch stores and returns.
FallbackRecord(claimLog, t) ==
    LET withId == SetField(claimLog, "id", DateNowString(t))
        withTs == SetField(withId, "timestamp",
                           IF Truthy(claimLog, "timestamp")
                           THEN claimLog["timestamp"] ELSE ToISOString(t))
    IN  SetField(withTs, "createdAt",
                 IF Truthy(claimLog, "createdAt")
                 THEN claimLog["createdAt"] ELSE ToISOString(t))

\* A request may suspend on the ledger while the model has room for it.
CanSuspend(r) == r \notin inflight /\ Cardinality(inflight) < MaxInflight

Unchanged(op, orgName, reqBody, status, body, route, calls, ledger) ==
    /\ out' = Output(op, orgName, reqBody, status, body, route, calls, ledger)
    /\ UNCHANGED <<orgConnections, claimsLogs, bootPc, inflight, sigPc, proc,
                   attempts, stepsOk, disconnected, returned, postedFor,
                   handled, routedToLedger, provVars>>

Suspend(r, calls, reqBody) ==
    /\ CanSuspend(r)
    /\ inflight' = inflight \cup {r}
    /\ out' = Output(r.req \o ".call", r.org, reqBody, 0, JNull, "ledger", calls, NoOutcome)
    /\ routedToLedger' = routedToLedger \cup {r.org}
    /\ UNCHANGED <<orgConnections, claimsLogs, bootPc, sigPc, proc,
                   attempts, stepsOk, disconnected, returned, postedFor,
                   handled, provVars>>

\* app.get('/api/claims-logs/:org'), up to the response or the ledger call
GetClaimsLogs(orgName) ==
    /\ Ready
    /\ IF HasContract(orgConnections, orgName)
       THEN LET calls == ContractCall(orgConnections, orgName, "evaluate",
                                      "QueryAllClaimLogs", <<>>)
            IN  IF calls = NoCalls
                THEN Unchanged("GET", orgName, EmptyObject, 500,
                               ErrorBody("Failed to fetch claims logs",
                                         "Contract not available"),
                               "ledger", NoCalls, NoOutcome)
                ELSE Suspend([req |-> "GET", org |-> orgName], calls, EmptyObject)
       ELSE Unchanged("GET", orgName, EmptyObject, 200, JArray(claimsLogs),
                      "fallback", NoCalls, NoOutcome)

\* Mutant: a failed ledger read is answered from the fallback list.
GetReply_FallsBack(outcome) ==
    IF outcome.kind = "resolve" /\ JSONParse(outcome.bytes).ok
                                /\ JSONParse(outcome.bytes).value # JNull
    THEN [status |-> 200, body |-> JSONParse(outcome.bytes).value]
    ELSE [status |-> 200, body |-> JArray(claimsLogs)]

\* What the GET handler answers once evaluateTransaction has settled.
GetReply(outcome) ==
    IF outcome.kind = "reject"
    THEN [status |-> 500,
          body |-> ErrorBody("Failed to fetch claims logs", outcome.message)]
    ELSE LET parsed == JSONParse(outcome.bytes)
         IN  IF ~parsed.ok
             THEN [status |-> 500,
                   body |-> ErrorBody("Failed to fetch claims logs",
                                      "Unexpected token in JSON")]
             ELSE IF parsed.value = JNull
             THEN [status |-> 500,
                   body |-> ErrorBody("Failed to fetch claims logs",
                                      "Cannot read properties of null")]
             ELSE [status |-> 200, body |-> parsed.value]

\* What the POST handler answers once submitTransaction has settled.
PostReply(outcome) ==
    IF outcome.kind = "reject"
    THEN [status |-> 500,
          body |-> ErrorBody("Failed to add claim log", outcome.message)]
    ELSE IF outcome.bytes = ""
    THEN [status |-> 200, body |-> JObject(EmptyObject)]
    ELSE LET parsed == JSONParse(outcome.bytes)
         IN  IF ~parsed.ok
             THEN [status |-> 500,
                   body |-> ErrorBody("Failed to add claim log",
                                      "Unexpected token in JSON")]
             ELSE [status |-> 200, body |-> parsed.value]

\* Mutant: a rejected ledger call drops the organization's handle.
LedgerSettles_DropsHandle(r, outcome) ==
    /\ Ready
    /\ r \in inflight
    /\ inflight' = inflight \ {r}
    /\ LET reply == IF r.req = "GET" THEN GetReply(outcome) ELSE PostReply(outcome)
       IN  out' = Output(r.req \o ".reply", r.org, EmptyObject, reply.status, reply.body,
                         "ledger", NoCalls, outcome)
    /\ orgConnections' =
            IF outcome.kind = "reject"
            THEN Store(orgConnections, r.org, [gateway |-> Null, contract |-> Null])
            ELSE orgConnections
    /\ UNCHANGED <<claimsLogs, bootPc, sigPc, proc,
                   attempts, stepsOk, disconnected, returned, postedFor,
                   handled, routedToLedger, provVars>>

\* The continuation of a suspended GET or POST: the ledger call settles.
LedgerSettles(r, outcome) ==
    /\ Ready
    /\ r \in inflight
    /\ inflight' = inflight \ {r}
    /\ LET reply == IF r.req = "GET" THEN GetReply(outcome) ELSE PostReply(outcome)
       IN  out' = Output(r.req \o ".reply", r.org, EmptyObject, reply.status, reply.body,
                         "ledger", NoCalls, outcome)
    /\ UNCHANGED <<orgConnections, claimsLogs, bootPc, sigPc, proc,
                   attempts, stepsOk, disconnected, returned, postedFor,
                   handled, routedToLedger, provVars>>

\* app.post('/api/claims-logs/:org'), up to the response or the ledger call
PostClaimsLogs(orgName, claimLog, t) ==
    /\ Ready
    /\ IF MissingFields(claimLog)
       THEN Unchanged("POST", orgName, claimLog, 400,
                      MissingFieldsBody,
                      "none", NoCalls, NoOutcome)
       ELSE IF HasContract(orgConnections, orgName)
       THEN LET calls == ContractCall(orgConnections, orgName, "submit",
                                      "AddClaimLog", AddClaimLogArgs(claimLog, t))
            IN  IF calls = NoCalls
                THEN Unchanged("POST", orgName, claimLog, 500,
                               ErrorBody("Failed to add claim log",
                                         "Contract not available"),
                               "ledger", NoCalls, NoOutcome)
                ELSE Suspend([req |-> "POST", org |-> orgName], calls, claimLog)
       ELSE LET stored == FallbackRecord(claimLog, t)
            IN  /\ Len(claimsLogs) < MaxLogs
                /\ claimsLogs' = Push(claimsLogs, stored)
                /\ returned' = returned \cup {stored}
                /\ postedFor' = orgName
                /\ handled' = Append(handled, stored)
                /\ out' = Output("POST", orgName, claimLog, 200, JObject(stored),
                                 "fallback", NoCalls, NoOutcome)
                /\ UNCHANGED <<orgConnections, bootPc, inflight, sigPc, proc,
                               attempts, stepsOk, disconnected,
                               routedToLedger, provVars>>

-----------------------------------------------------------------------------
(* Shutdown: process.on('SIGINT').  One delivery of the signal is modelled.  *)
(* The handler is an async function: each `await gateway.disconnect()` ends  *)
(* a run, and a disconnect that throws or rejects rejects the handler's      *)
(* promise, which nothing handles.                                           *)

SigintOutput(orgName, note) ==
    Output("SIGINT", orgName, EmptyObject, 0, JNull, note, NoCalls, NoOutcome)

\* process.exit(0)
Exit0 ==
    /\ proc' = [state |-> "exited", code |-> 0]
    /\ sigPc' = "done"
    /\ out' = SigintOutput("", "exit")
    /\ UNCHANGED disconnected

\* The handler's promise rejects and nothing catches it.  Node either raises
\* the unhandled rejection as an uncaught exception (exit status 1) or only
\* warns and keeps the process running.
UnhandledRejection(orgName, tried) ==
    /\ sigPc' = "rejected"
    /\ disconnected' = disconnected \cup tried
    /\ out' = SigintOutput(orgName, "unhandled rejection")
    /\ \/ proc' = [state |-> "exited", code |-> 1]
       \/ proc' = proc

\* await orgConnections[org].gateway.disconnect(): the call returns and the
\* handler suspends, or the call throws.
Disconnect(orgName, next) ==
    \/ /\ sigPc' = next
       /\ disconnected' = disconnected \cup {orgName}
       /\ out' = SigintOutput(orgName, "disconnect")
       /\ proc' = proc
    \/ UnhandledRejection(orgName, {orgName})

\* The handler from its second `if` on.
SigintOrg2 ==
    IF HasGateway(orgConnections, ORG2_NAME)
    THEN Disconnect(ORG2_NAME, "await2")
    ELSE Exit0

\* The handler from its start.
Sigint ==
    /\ Ready
    /\ sigPc = "idle"
    /\ IF HasGateway(orgConnections, ORG1_NAME)
       THEN Disconnect(ORG1_NAME, "await1")
       ELSE SigintOrg2
    /\ UNCHANGED <<orgConnections, claimsLogs, bootPc, inflight,
                   attempts, stepsOk, returned, postedFor,
                   handled, routedToLedger, provVars>>

\* The awaited disconnect of org1 settles.
SigintAfterOrg1 ==
    /\ Ready
    /\ sigPc = "await1"
    /\ \/ SigintOrg2
       \/ UnhandledRejection(ORG1_NAME, {})
    /\ UNCHANGED <<orgConnections, claimsLogs, bootPc, inflight,
                   attempts, stepsOk, returned, postedFor,
                   handled, routedToLedger, provVars>>

\* The awaited disconnect of org2 settles.
SigintAfterOrg2 ==
    /\ Ready
    /\ sigPc = "await2"
    /\ \/ Exit0
       \/ UnhandledRejection(ORG2_NAME, {})
    /\ UNCHANGED <<orgConnections, claimsLogs, bootPc, inflight,
                   attempts, stepsOk, returned, postedFor,
                   handled, routedToLedger, provVars>>

\* The run returns to the event loop.
EndTurn ==
    /\ Running
    /\ out.op # "idle"
    /\ out' = Idle
    /\ UNCHANGED <<orgConnections, claimsLogs, bootPc, inflight, sigPc, proc,
                   attempts, stepsOk, disconnected, returned, postedFor,
                   handled, routedToLedger, provVars>>

-----------------------------------------------------------------------------
(* The credential provisioner, setup-wallets.js, is a program of its own: it *)
(* has run before the server starts.                                         *)

\* A file is its content; the empty content stands for a file that is missing
\* or cannot be read.
Unreadable == ""

KeyFiles ==
    { [name |-> "a_sk", content |-> "key-a"],
      [name |-> "b_sk", content |-> "key-b"],
      [name |-> "c_sk", content |-> Unreadable] }

\* What fs.readdirSync(keyPath) can list, in the order it lists it: nothing,
\* one file, or two different files.
KeyListings ==
    {<<>>} \cup {<<f>> : f \in KeyFiles}
           \cup {l \in {<<f, g>> : f \in KeyFiles, g \in KeyFiles} : l[1] # l[2]}

\* The keystore directories: missing, or present with a listing.
Keystores ==
    {[exists |-> FALSE, files |-> <<>>]}
        \cup {[exists |-> TRUE, files |-> l] : l \in KeyListings}

CertOf(orgName) == "cert:" \o orgName

StaleIdentity ==
    [credentials |-> [certificate |-> "cert:old", privateKey |-> "key-old"],
     mspId |-> "OldMSP", type |-> "X.509"]

\* What an earlier run or a user may have left in one organization's wallet.
OldStores ==
    { [admin |-> StaleIdentity],
      [admin |-> StaleIdentity, user1 |-> StaleIdentity] }

\* The wallet directory before the run: missing or empty, or holding stores
\* of the configured organizations and of another one.
OldWallets ==
    {EmptyObject}
        \cup {[o \in {ORG1_NAME} |-> st] : st \in OldStores}
        \cup {[o \in {ORG2_NAME, "org3.example.com"} |-> st] : st \in OldStores}
        \cup {[o \in ConfiguredOrgs |-> st] : st \in OldStores}

\* orgName === 'org1.example.com' ? 'Org1MSP' : 'Org2MSP'
MspId(orgName) == IF orgName = ORG1_NAME THEN "Org1MSP" ELSE "Org2MSP"

\* fs.readFileSync(path.join(keyPath, fs.readdirSync(keyPath)[0])): the
\* content of the first file listed; throws (Unreadable) when the directory is
\* missing or empty or that file cannot be read.
KeyFileRead(ks) ==
    IF ~ks.exists \/ ks.files = <<>> THEN Unreadable ELSE ks.files[1].content

\* The identity createWallet builds from certificate cert and private key key.
Identity(orgName, cert, key) ==
    [credentials |-> [certificate |-> cert, privateKey |-> key],
     mspId |-> MspId(orgName), type |-> "X.509"]

\* Wallets.newFileSystemWallet(walletPath) then wallet.put('admin', identity):
\* the organization's store, created if missing, gets or replaces 'admin'.
WalletPut(w, orgName, identity) ==
    [o \in DOMAIN w \cup {orgName} |->
        IF o = orgName
        THEN IF o \in DOMAIN w
             THEN [l \in DOMAIN w[o] \cup {"admin"} |->
                        IF l = "admin" THEN identity ELSE w[o][l]]
             ELSE [admin |-> identity]
        ELSE w[o]]

\* Mutant: the old wallet directory is left in place.
RemoveWallets_Keeps(w) == w

\* if (fs.existsSync(walletDir)) fs.rmSync(walletDir, {recursive, force})
RemoveWallets(w) == EmptyObject

\* main() up to its first createWallet
Main ==
    /\ provPc = "main"
    /\ wallet' = RemoveWallets(wallet)
    /\ provPc' = "org1"
    /\ UNCHANGED <<certFile, keystore, serverVars>>

\* createWallet(orgName): the certificate, then the key, then the wallet; a
\* throw anywhere is caught and logged, and main goes on.
createWallet(orgName, next) ==
    LET cert == certFile[orgName]
        key == KeyFileRead(keystore[orgName])
    IN  /\ wallet' = IF cert = Unreadable \/ key = Unreadable
                     THEN wallet
                     ELSE WalletPut(wallet, orgName, Identity(orgName, cert, key))
        /\ provPc' = next
        /\ UNCHANGED <<certFile, keystore, serverVars>>

CreateWalletOrg1 ==
    /\ provPc = "org1"
    /\ createWallet(ORG1_NAME, "org2")

CreateWalletOrg2 ==
    /\ provPc = "org2"
    /\ createWallet(ORG2_NAME, "done")

\* The provisioner is over and has left no material behind.
ProvisionerDone ==
    /\ certFile = [o \in ConfiguredOrgs |-> ""]
    /\ keystore = [o \in ConfiguredOrgs |-> [exists |-> FALSE, files |-> <<>>]]
    /\ wallet = EmptyObject
    /\ provPc = "done"

-----------------------------------------------------------------------------

Init ==
    /\ orgConnections = EmptyObject
    /\ claimsLogs = <<>>
    /\ bootPc = "org1"
    /\ inflight = {}
    /\ sigPc = "idle"
    /\ proc = [state |-> "running", code |-> 0]
    /\ out = Idle
    /\ attempts = [o \in ConfiguredOrgs |-> 0]
    /\ stepsOk = {}
    /\ disconnected = {}
    /\ returned = {}
    /\ postedFor = ""
    /\ handled = <<>>
    /\ routedToLedger = {}
    /\ ProvisionerDone

Next ==
    \/ InitializeFabricOrg1
    \/ InitializeFabricOrg2
    \/ Health
    \/ \E orgName \in OrgParams : GetClaimsLogs(orgName)
    \/ \E orgName \in OrgParams, claimLog \in Bodies, t \in Times :
            PostClaimsLogs(orgName, claimLog, t)
    \/ \E r \in inflight, outcome \in LedgerOutcomes : LedgerSettles(r, outcome)
    \/ Sigint
    \/ SigintAfterOrg1
    \/ SigintAfterOrg2
    \/ EndTurn

Spec == Init /\ [][Next]_vars

\* A run of setup-wallets.js from any material and any old wallet directory;
\* the server is not running.
ProvInit ==
    /\ certFile \in [ConfiguredOrgs -> {Unreadable} \cup {CertOf(o) : o \in ConfiguredOrgs}]
    /\ \A o \in ConfiguredOrgs : certFile[o] \in {Unreadable, CertOf(o)}
    /\ keystore \in [ConfiguredOrgs -> Keystores]
    /\ wallet \in OldWallets
    /\ provPc = "main"
    /\ orgConnections = EmptyObject
    /\ claimsLogs = <<>>
    /\ bootPc = "org1"
    /\ inflight = {}
    /\ sigPc = "idle"
    /\ proc = [state |-> "running", code |-> 0]
    /\ out = Idle
    /\ attempts = [o \in ConfiguredOrgs |-> 0]
    /\ stepsOk = {}
    /\ disconnected = {}
    /\ returned = {}
    /\ postedFor = ""
    /\ handled = <<>>
    /\ routedToLedger = {}

ProvNext ==
    \/ Main
    \/ CreateWalletOrg1
    \/ CreateWalletOrg2

ProvSpec == ProvInit /\ [][ProvNext]_vars

-----------------------------------------------------------------------------
(* Vocabulary of the properties *)

\* The organization has a live handle in mapping conns.
LiveHandle(conns, orgName) ==
    /\ orgName \in DOMAIN conns
    /\ conns[orgName].contract # Null

\* A required field of the request body is absent or empty.
AbsentOrEmpty(reqBody) ==
    \E f \in {"claimId", "farmerName", "cropType", "status"} :
        f \notin DOMAIN reqBody \/ reqBody[f] = ""

\* The run in `out` answered a request of this method.
Answered(method) == out.op \in {method, method \o ".reply"}

-----------------------------------------------------------------------------
(* Properties *)

\* C1: a POST whose body lacks claimId, farmerName, cropType or status, or has
\* it empty, is answered 400 'Missing required fields' for every :org, live or
\* not; the fallback list is as it was and no ledger call was made.
C1_MissingFieldsRejected ==
    (out.op \in {"POST", "POST.call"} /\ AbsentOrEmpty(out.reqBody)) =>
        /\ out.op = "POST"
        /\ out.status = 400
        /\ out.body.fields.error = "Missing required fields"
        /\ claimsLogs = out.logsBefore
        /\ out.calls = <<>>

\* C1 witness: a body with an empty field was rejected for an organization
\* with a live handle while the fallback list held a record.
C1_Witness ==
    /\ out.op = "POST"
    /\ out.status = 400
    /\ \E f \in DOMAIN out.reqBody : out.reqBody[f] = ""
    /\ LiveHandle(orgConnections, out.org)
    /\ claimsLogs # <<>>

\* C2: every record a fallback POST answered with 200 carries an id and a
\* createdAt, and every GET answered for an organization without a live handle
\* returns an array that holds each such record with the field values the
\* POST returned.
C2_PostedRecordStaysListed ==
    /\ \A R \in returned : {"id", "createdAt"} \subseteq DOMAIN R
    /\ (Answered("GET") /\ ~LiveHandle(out.connsBefore, out.org)) =>
            /\ out.body.type = "array"
            /\ \A R \in returned : \E i \in DOMAIN out.body.items : out.body.items[i] = R

\* C2 witness: a GET without live handle answered after two fallback POSTs
\* had returned different records.
C2_Witness ==
    /\ out.op = "GET"
    /\ out.route = "fallback"
    /\ Cardinality(returned) >= 2

\* C3: a GET for an :org without a live handle is answered 200 with exactly
\* the current fallback list, whatever the :org.
C3_FallbackGetReturnsList ==
    (Answered("GET") /\ ~LiveHandle(out.connsBefore, out.org)) =>
        /\ out.status = 200
        /\ out.body = JArray(claimsLogs)
        /\ out.calls = <<>>

\* C3 witness: org1 failed to connect and its GET returned a list whose
\* latest record was posted under the name that is not configured.
C3_Witness ==
    /\ out.op = "GET"
    /\ out.org = ORG1_NAME
    /\ ORG1_NAME \in DOMAIN orgConnections
    /\ ~LiveHandle(orgConnections, ORG1_NAME)
    /\ postedFor = "org3.example.com"
    /\ out.body.items # <<>>


\* The write the POST route hands to the ledger when the fourth argument is ts.
WriteCallWith(ts) ==
    << [org |-> out.org, kind |-> "submit", fn |-> "AddClaimLog",
        args |-> << out.reqBody["claimId"], out.reqBody["farmerName"],
                    out.reqBody["cropType"], ts, out.reqBody["status"] >>] >>

CurrentTimes == {ToISOString(t) : t \in Times}

\* A valid POST for a live organization ends suspended on one ledger call;
\* the runs of such a POST leave the fallback list alone; a settled write is
\* answered with its decoded result, the empty result as the empty record.
C4_RouteReplyAndFrame ==
    /\ (out.op \in {"POST", "POST.call"} /\ ~AbsentOrEmpty(out.reqBody)
            /\ LiveHandle(out.connsBefore, out.org)) =>
            out.op = "POST.call" /\ Len(out.calls) = 1
    /\ out.op \in {"POST.call", "POST.reply"} => claimsLogs = out.logsBefore
    /\ (out.op = "POST.reply" /\ out.ledger.kind = "resolve") =>
            IF out.ledger.bytes = ""
            THEN out.status = 200 /\ out.body = JObject(EmptyObject)
            ELSE JSONParse(out.ledger.bytes).ok =>
                    out.status = 200 /\ out.body = JSONParse(out.ledger.bytes).value

\* C4 as stated: the fourth argument is the body's timestamp, and the current
\* time when the body has no timestamp.
C4_TimestampUnlessAbsent ==
    /\ C4_RouteReplyAndFrame
    /\ out.op = "POST.call" =>
            IF "timestamp" \in DOMAIN out.reqBody
            THEN out.calls = WriteCallWith(out.reqBody["timestamp"])
            ELSE \E now \in CurrentTimes : out.calls = WriteCallWith(now)

\* C4 amended: a valid POST for a live organization invokes AddClaimLog once
\* with (claimId, farmerName, cropType, timestamp, status), the timestamp
\* being the body's when it is present and not empty and the current time
\* when it is absent or empty; the decoded result is returned and the
\* fallback list is left as it was.
C4_TimestampUnlessAbsentOrEmpty ==
    /\ C4_RouteReplyAndFrame
    /\ out.op = "POST.call" =>
            IF "timestamp" \in DOMAIN out.reqBody /\ out.reqBody["timestamp"] # ""
            THEN out.calls = WriteCallWith(out.reqBody["timestamp"])
            ELSE \E now \in CurrentTimes : out.calls = WriteCallWith(now)

\* C4 witness: a POST with an empty timestamp was handed to the ledger while
\* the fallback list held a record.
C4_Witness ==
    /\ out.op = "POST.call"
    /\ "timestamp" \in DOMAIN out.reqBody
    /\ out.reqBody["timestamp"] = ""
    /\ claimsLogs # <<>>

\* The ledger call of the run in `out` failed: rejected (error, timeout), or
\* resolved with bytes the route cannot decode.
LedgerFailed ==
    /\ out.op \in {"GET.reply", "POST.reply"}
    /\ \/ out.ledger.kind = "reject"
       \/ /\ out.ledger.kind = "resolve"
          /\ ~JSONParse(out.ledger.bytes).ok
          /\ out.op = "POST.reply" => out.ledger.bytes # ""

\* C5: a failed ledger read or write of a live organization is answered 500
\* with {error, details}; the fallback list is neither served nor written, the
\* handle mapping is as it was and the process keeps running.
C5_LedgerFailureIs500 ==
    LedgerFailed =>
        /\ out.status = 500
        /\ DOMAIN out.body.fields = {"error", "details"}
        /\ out.route = "ledger"
        /\ claimsLogs = out.logsBefore
        /\ orgConnections = out.connsBefore
        /\ LiveHandle(orgConnections, out.org)
        /\ Running

\* C5 witness: a ledger read resolved with undecodable bytes while the
\* fallback list held a record.
C5_Witness ==
    /\ out.op = "GET.reply"
    /\ out.ledger.kind = "resolve"
    /\ out.ledger.bytes = "<html>"
    /\ out.status = 500
    /\ claimsLogs # <<>>

\* C6: GET /health answers 200 with each flag true exactly when that
\* organization has a live handle, before, during and after boot, and changes
\* neither the mapping nor the list and calls no ledger.
C6_HealthTruthful ==
    out.op = "HEALTH" =>
        /\ out.status = 200
        /\ out.body.fields.fabricConnectedOrg1 = LiveHandle(orgConnections, ORG1_NAME)
        /\ out.body.fields.fabricConnectedOrg2 = LiveHandle(orgConnections, ORG2_NAME)
        /\ orgConnections = out.connsBefore
        /\ claimsLogs = out.logsBefore
        /\ out.calls = <<>>

\* C6 witness: health answered with org2 live and org1 not.
C6_Witness ==
    /\ out.op = "HEALTH"
    /\ out.body.fields.fabricConnectedOrg2
    /\ ~out.body.fields.fabricConnectedOrg1
    /\ ORG1_NAME \in DOMAIN orgConnections

\* C7: each organization is attempted at most once and, once boot is over,
\* exactly once; it then has a live handle exactly when all of its own steps
\* succeeded; boot never ends the process (only the interrupt handler does).
C7_BootContainsFailures ==
    /\ \A o \in ConfiguredOrgs : attempts[o] <= 1
    /\ bootPc = "done" =>
            \A o \in ConfiguredOrgs :
                /\ attempts[o] = 1
                /\ LiveHandle(orgConnections, o) <=> o \in stepsOk
    /\ out.op = "boot" => Running
    /\ ~Running => sigPc # "idle"

\* C7 witness: boot is over, a step of org1 failed and org2 is live.
C7_Witness ==
    /\ bootPc = "done"
    /\ ORG1_NAME \notin stepsOk
    /\ ~LiveHandle(orgConnections, ORG1_NAME)
    /\ LiveHandle(orgConnections, ORG2_NAME)

\* C8: when both organizations failed to connect, health reports both flags
\* false and every GET and every valid POST is answered 200 from the fallback
\* list; no request goes to the ledger or is answered 500.
C8_AllFallbackWhenBothFail ==
    (bootPc = "done" /\ stepsOk = {}) =>
        /\ out.op = "HEALTH" =>
                /\ ~out.body.fields.fabricConnectedOrg1
                /\ ~out.body.fields.fabricConnectedOrg2
        /\ out.op \notin {"GET.call", "POST.call", "GET.reply", "POST.reply"}
        /\ out.op = "GET" => out.status = 200 /\ out.route = "fallback"
        /\ (out.op = "POST" /\ ~AbsentOrEmpty(out.reqBody)) =>
                /\ out.status = 200
                /\ out.route = "fallback"
                /\ claimsLogs = Append(out.logsBefore, out.body.fields)
        /\ out.status # 500

\* C8 witness: both organizations failed and a valid POST for org1 was
\* answered 200.
C8_Witness ==
    /\ bootPc = "done"
    /\ stepsOk = {}
    /\ out.op = "POST"
    /\ out.org = ORG1_NAME
    /\ out.status = 200

\* C9: once the interrupt handler has run to its end, the process has exited
\* with status 0, also when a disconnect threw or rejected.
C9_ExitsWithZero ==
    sigPc \in {"done", "rejected"} => (proc.state = "exited" /\ proc.code = 0)

\* C10: when the interrupt handler is over or the process has exited, a
\* disconnect was attempted for every organization with a live handle,
\* whatever became of the other organization's disconnect.
C10_AllLiveDisconnected ==
    (sigPc \in {"done", "rejected"} \/ ~Running) =>
        \A o \in ConfiguredOrgs :
            LiveHandle(orgConnections, o) => o \in disconnected

\* C11: in a fallback POST the id and the createdAt of the stored and
\* returned record are the server's: id is the numeric string of the current
\* time, createdAt is the current time, and neither is the value of an id or
\* createdAt field of the request body.
C11_IdAndCreatedAtServerAssigned ==
    (out.op = "POST" /\ out.route = "fallback") =>
        LET stored == claimsLogs[Len(claimsLogs)]
        IN  /\ out.body = JObject(stored)
            /\ stored["id"] \in {ToString(t) : t \in Times}
            /\ stored["createdAt"] \in CurrentTimes
            /\ "id" \in DOMAIN out.reqBody => stored["id"] # out.reqBody["id"]
            /\ "createdAt" \in DOMAIN out.reqBody =>
                    stored["createdAt"] # out.reqBody["createdAt"]

\* C12: a valid POST for a live organization hands the ledger exactly one
\* AddClaimLog and its continuation hands it none, also when the write failed
\* (no retry); a valid POST for an organization without live handle adds one
\* record, also when the list already holds a record with the same claimId
\* (no deduplication).
C12_NoDedupNoRetry ==
    /\ (out.op \in {"POST", "POST.call"} /\ ~AbsentOrEmpty(out.reqBody)
            /\ LiveHandle(out.connsBefore, out.org)) =>
            /\ out.op = "POST.call"
            /\ Len(out.calls) = 1
            /\ out.calls[1].fn = "AddClaimLog"
            /\ out.calls[1].args[1] = out.reqBody["claimId"]
    /\ out.op = "POST.reply" =>
            /\ out.calls = <<>>
            /\ [req |-> "POST", org |-> out.org] \notin inflight
    /\ (out.op = "POST" /\ ~AbsentOrEmpty(out.reqBody)
            /\ ~LiveHandle(out.connsBefore, out.org)) =>
            /\ Len(claimsLogs) = Len(out.logsBefore) + 1
            /\ claimsLogs[Len(claimsLogs)]["claimId"] = out.reqBody["claimId"]

\* C12 witness: a fallback POST was stored although the list already held a
\* record with its claimId.
C12_Witness ==
    /\ out.op = "POST"
    /\ out.status = 200
    /\ \E i \in DOMAIN out.logsBefore :
            out.logsBefore[i]["claimId"] = out.reqBody["claimId"]
    /\ Len(claimsLogs) = Len(out.logsBefore) + 1

\* ---------------------------------------------------------------------
\* The Credential Provisioner (specification ProvSpec)

\* The organization's material is certainly readable: the certificate and
\* every file the keystore lists.
MaterialReadable(o) ==
    /\ certFile[o] # Unreadable
    /\ keystore[o].exists
    /\ keystore[o].files # <<>>
    /\ \A i \in 1..Len(keystore[o].files) : keystore[o].files[i].content # Unreadable

\* The organization's material is certainly not readable: no certificate, or
\* no key file that can be read.
MaterialUnreadable(o) ==
    \/ certFile[o] = Unreadable
    \/ ~keystore[o].exists
    \/ \A i \in 1..Len(keystore[o].files) : keystore[o].files[i].content = Unreadable

\* The organization's store holds the 'admin' identity built from the current
\* certificate and a current key, and nothing else.
FreshAdminOnly(o) ==
    /\ o \in DOMAIN wallet
    /\ DOMAIN wallet[o] = {"admin"}
    /\ \E i \in 1..Len(keystore[o].files) :
            /\ keystore[o].files[i].content # Unreadable
            /\ wallet[o]["admin"] =
                    Identity(o, certFile[o], keystore[o].files[i].content)
    /\ certFile[o] # Unreadable

\* C13: when an organization's keystore directory holds more than one key
\* file, the finished run has written no admin identity for that organization.
C13_ManyKeyFilesFail ==
    provPc = "done" =>
        \A o \in ConfiguredOrgs :
            Len(keystore[o].files) > 1 => o \notin DOMAIN wallet

\* C14: after a run from any old wallet directory, each configured
\* organization has exactly the 'admin' identity of its current certificate
\* and key when its material is readable and no identity when it is not;
\* nothing of the old directory is left, and either organization can be
\* provisioned while the other one fails.
C14_FreshIdentityOrNone ==
    provPc = "done" =>
        /\ DOMAIN wallet \subseteq ConfiguredOrgs
        /\ \A o \in ConfiguredOrgs :
                /\ MaterialReadable(o) => FreshAdminOnly(o)
                /\ MaterialUnreadable(o) => o \notin DOMAIN wallet
                /\ o \in DOMAIN wallet => FreshAdminOnly(o)

\* A finished run in which org1 failed, org2 got its identity, and the old
\* directory held stale identities of both.
C14_Witness ==
    /\ provPc = "done"
    /\ MaterialUnreadable(ORG1_NAME)
    /\ MaterialReadable(ORG2_NAME)
    /\ ORG1_NAME \notin DOMAIN wallet
    /\ wallet[ORG2_NAME] =
            [admin |-> Identity(ORG2_NAME, CertOf(ORG2_NAME), "key-a")]

\* ---------------------------------------------------------------------
\* The handle mapping

\* C15: every entry of the handle mapping has a gateway exactly when it has a
\* contract, whichever boot step failed.
C15_EntriesAllOrNothing ==
    \A o \in DOMAIN orgConnections :
        (orgConnections[o].gateway # Null) <=> (orgConnections[o].contract # Null)

\* A boot attempt that failed after gateway.connect has stored an entry
\* without a gateway.
C15_Witness ==
    /\ out.op = "boot"
    /\ out.route \in {"network", "contract"}
    /\ orgConnections[out.org].gateway = Null
    /\ orgConnections[out.org].contract = Null

\* C16: no step changes or removes an entry that boot has stored in the handle
\* mapping, and no second boot attempt is made for its organization; a live
\* organization stays live and an unavailable one stays unavailable.
C16_StoredEntryNeverChanges ==
    [][\A o \in DOMAIN orgConnections :
            /\ o \in DOMAIN orgConnections'
            /\ orgConnections'[o] = orgConnections[o]
            /\ attempts'[o] = attempts[o]]_vars

\* After boot left org1 unavailable and org2 live, a write for org2 was
\* rejected by the ledger; both entries are as boot stored them.
C16_Witness ==
    /\ bootPc = "done"
    /\ out.op = "POST.reply"
    /\ out.ledger.kind = "reject"
    /\ out.org = ORG2_NAME
    /\ LiveHandle(orgConnections, ORG2_NAME)
    /\ ~LiveHandle(orgConnections, ORG1_NAME)
    /\ orgConnections = out.connsBefore
    /\ attempts = [o \in ConfiguredOrgs |-> 1]

\* ---------------------------------------------------------------------
\* The fallback list under interleaving

\* C17: whatever requests are in flight, the fallback list holds exactly the
\* records of the valid fallback POSTs handled so far, one entry per POST:
\* none is lost and none is there twice.
C17_NoFallbackWriteLostOrDuplicated ==
    /\ Len(claimsLogs) = Len(handled)
    /\ \A i \in 1..Len(handled) : claimsLogs[i] = handled[i]
    /\ (out.op = "POST" /\ out.route = "fallback") =>
            /\ Len(handled) = Len(out.logsBefore) + 1
            /\ out.body = JObject(handled[Len(handled)])

\* The second fallback POST is handled while a ledger-backed request of the
\* live organization is suspended on the network.
C17_Witness ==
    /\ out.op = "POST"
    /\ out.route = "fallback"
    /\ inflight # {}
    /\ Len(handled) = 2
    /\ Len(claimsLogs) = 2

\* C18: in every step the fallback list stays as it is or gets one record at
\* its end, and it grows only in the run of a POST answered 200 from the
\* fallback list, by the record that POST returned; so no GET, health request,
\* 400, ledger-backed or failed request touches it, and the records stay in
\* the order their POSTs were handled.
C18_AppendOnly ==
    [][\/ claimsLogs' = claimsLogs
       \/ /\ Len(claimsLogs') = Len(claimsLogs) + 1
          /\ SubSeq(claimsLogs', 1, Len(claimsLogs)) = claimsLogs
          /\ out'.op = "POST"
          /\ out'.status = 200
          /\ out'.route = "fallback"
          /\ out'.body = JObject(claimsLogs'[Len(claimsLogs')])
          /\ handled' = Append(handled, claimsLogs'[Len(claimsLogs')])]_vars

\* A ledger write that failed was answered while the list held two different
\* records, which are as they were.
C18_Witness ==
    /\ out.op = "POST.reply"
    /\ out.status = 500
    /\ Len(claimsLogs) = 2
    /\ claimsLogs[1] # claimsLogs[2]
    /\ claimsLogs = out.logsBefore

\* C19: a request for an organization whose entry boot has not stored yet is
\* served from the fallback list (unless it is a POST answered 400), a request
\* goes to the ledger only through a stored live entry, and once a request for
\* an organization has been routed to the ledger, no request for it is served
\* from or written to the fallback list.
C19_RoutingMonotonic ==
    /\ (/\ out.op \in {"GET", "POST"}
        /\ out.org \notin DOMAIN out.connsBefore
        /\ out.status # 400) =>
            /\ out.route = "fallback"
            /\ out.status = 200
            /\ out.op = "GET" => out.body = JArray(out.logsBefore)
            /\ out.op = "POST" => Len(claimsLogs) = Len(out.logsBefore) + 1
    /\ out.op \in {"GET.call", "POST.call"} =>
            /\ LiveHandle(out.connsBefore, out.org)
            /\ out.org \in routedToLedger
    /\ out.route = "fallback" => out.org \notin routedToLedger

\* Boot is in progress: org1's entry is stored and a request for org1 has gone
\* to the ledger, while a write for org2, not stored yet, goes to the list.
C19_Witness ==
    /\ bootPc = "org2"
    /\ ORG1_NAME \in routedToLedger
    /\ out.op = "POST"
    /\ out.org = ORG2_NAME
    /\ ORG2_NAME \notin DOMAIN orgConnections
    /\ out.route = "fallback"

====
